---- MODULE Spec2Model ----
(***************************************************************************)
(* Model of the two SSH nodes of this package: Sshv2.execute               *)
(* (nodes/Sshv2/Sshv2.node.ts) and HadidizAi.execute                       *)
(* (nodes/HadidizAi/HadidizAi.node.ts).  One behaviour is one invocation   *)
(* of execute(); every await of the source is a position of the program    *)
(* counter pc, every transport call is issued by one action and completed  *)
(* by another.  Strings are sequences of one-character strings, messages   *)
(* are sequences of message parts.                                         *)
(***************************************************************************)
EXTENDS Integers, Sequences, FiniteSets, TLC

VARIABLES
    node,            \* which node's execute() runs
    continueOnFail,  \* this.continueOnFail()
    connectionType,  \* getNodeParameter('connectionType', 0)
    authentication,  \* getNodeParameter('authentication', 0)
    operation,       \* getNodeParameter('operation', 0)
    resource,        \* getNodeParameter('resource', 0) (Sshv2 only)
    nItems,          \* this.getInputData().length
    pc,              \* position inside execute()
    i,               \* the loop variable i / itemIndex
    sshState,        \* state of the NodeSSH object
    connectCalls,    \* number of ssh.connect calls issued
    connectOk,       \* ssh.connect has resolved
    disposeCalls,    \* number of ssh.dispose calls
    credentials,     \* the secrets read from the credentials or parameters
    connectionOptions, \* the Config passed to ssh.connect
    inflight,        \* transport calls issued and not yet settled
    log,             \* every transport call, in issue order
    path,            \* cwd / parameterPath / resolvedRemotePath
    remotePath,      \* the remote path handed to putFile
    fileName,        \* fileName || binaryData.fileName / remoteFilename
    binaryFile,      \* binaryFile.path of the item in progress (0: none)
    tmpCreated,      \* number of tmpFile() results so far
    tmpFiles,        \* staging files that exist on disk
    error,           \* the exception in flight (NoError: none)
    raised,          \* history: the items whose processing threw
    returnItems,     \* returnItems / returnData
    items,           \* the input items array (Sshv2 mutates it on download)
    result           \* what execute() returned or threw

vars == <<node, continueOnFail, connectionType, authentication, operation,
          resource, nItems, pc, i, sshState, connectCalls, connectOk,
          disposeCalls, credentials, connectionOptions, inflight, log,
          path, remotePath, fileName, binaryFile, tmpCreated,
          tmpFiles, error, raised, returnItems, items, result>>

(***************************************************************************)
(* Bounds                                                                  *)
(***************************************************************************)
MaxItems == 2
MaxPathLen == 2
MaxKeyPieces == 3

(***************************************************************************)
(* Strings                                                                 *)
(***************************************************************************)
Chars == {"~", "/", "a"}

RECURSIVE StringsUpTo(_)
StringsUpTo(n) ==
    IF n = 0 THEN {<<>>}
    ELSE LET shorter == StringsUpTo(n - 1)
         IN  shorter \cup {Append(s, c) : s \in {t \in shorter : Len(t) = n - 1}, c \in Chars}

\* every short path, and one home-relative path with a non-empty rest
Paths == StringsUpTo(MaxPathLen) \cup {<<"~", "/", "a">>}

\* the stdout of 'echo $HOME': without and with a trailing '/', and empty
HomeDirs == {<<"/", "h">>, <<"/", "h", "/">>, <<>>}

startsWith(s, prefix) ==
    /\ Len(s) >= Len(prefix)
    /\ SubSeq(s, 1, Len(prefix)) = prefix

\* s.charAt(s.length - 1), '' on the empty string
lastChar(s) == IF Len(s) = 0 THEN "" ELSE s[Len(s)]

(***************************************************************************)
(* Messages and errors                                                     *)
(***************************************************************************)
NoError == <<>>
TransportMsgs == {<<"Timed out">>, <<"Permission denied">>}
NotConnectedMsg == <<"Not connected to server">>
InvalidPathMsg == <<"Invalid path. Replace \"~\" with home directory or \"~/\"">>
CredentialsMsg == <<"Node does not have any credentials set">>
TmpFileMsg == <<"tmpFile failed">>
BinaryDataMsg == <<"This operation expects the node's input data to contain a binary file">>
WriteFileMsg == <<"writeFile failed">>
CopyBinaryMsg == <<"copyBinaryFile failed">>
ConnectionFailedPrefix == <<"SSH connection failed: ">>

ExitCodes == {0, 1}


(***************************************************************************)
(* Private keys and formatPrivateKey (utils/utilities, quoted in README.md) *)
(***************************************************************************)
BeginMarker == <<"-", "-", "-", "-", "-", "B", "E", "G", "I", "N">>
KeyHeader == <<"-", "-", "-", "-", "-", "B", "E", "G", "I", "N", " ", "O", "P", "E", "N", "S", "S", "H", " ", "P", "R", "I", "V", "A", "T", "E", " ", "K", "E", "Y", "-", "-", "-", "-", "-">>
KeyFooter == <<"-", "-", "-", "-", "-", "E", "N", "D", " ", "O", "P", "E", "N", "S", "S", "H", " ", "P", "R", "I", "V", "A", "T", "E", " ", "K", "E", "Y", "-", "-", "-", "-", "-">>

\* raw keys are built from these pieces: the marker, the marker cut short
\* by one character, and single characters
KeyPieces == {BeginMarker, <<"-", "-", "-", "-", "-", "B", "E", "G", "I">>, <<"N">>, <<"A">>, <<"\n">>}

RECURSIVE KeysUpTo(_)
KeysUpTo(n) ==
    IF n = 0 THEN {<<>>}
    ELSE LET shorter == KeysUpTo(n - 1)
         IN  shorter \cup {k \o piece : k \in shorter, piece \in KeyPieces}

Keys == KeysUpTo(MaxKeyPieces)

\* mutant: only a key with the OpenSSH header counts as formatted
formatPrivateKey_OpenSshOnly(privateKey) ==
    IF startsWith(privateKey, KeyHeader) THEN privateKey
    ELSE KeyHeader \o <<"\n">> \o privateKey \o <<"\n">> \o KeyFooter

formatPrivateKey(privateKey) ==
    IF startsWith(privateKey, BeginMarker) THEN privateKey
    ELSE KeyHeader \o <<"\n">> \o privateKey \o <<"\n">> \o KeyFooter

(***************************************************************************)
(* Secrets and the connect options.  Only the fields that depend on the   *)
(* authentication are kept; host, port and username are passed through.    *)
(***************************************************************************)
Undefined == "<undefined>"
Password == "pw"
\* the stored key of an invocation: a bare base64 body
PrivateKeys == {<<"A">>}
\* credentials.passphrase may be unset; the parameter defaults to ''
CredentialPassphrases == {Undefined, "", "secret"}
ParameterPassphrases == {"", "secret"}

NoCredentials == [password |-> Undefined, privateKey |-> <<>>, passphrase |-> Undefined]
NoOptions == [unset |-> TRUE]

\* JavaScript truthiness of an optional string
truthy(v) == v \notin {Undefined, ""}

PasswordCredentials ==
    {[password |-> Password, privateKey |-> <<>>, passphrase |-> Undefined]}

PrivateKeyCredentials(keys, passphrases) ==
    {[password |-> Undefined, privateKey |-> k, passphrase |-> pp] :
        k \in keys, pp \in passphrases}

PasswordOptions(c) == [password |-> c.password]

\* mutant: the passphrase is copied into the options unconditionally
PrivateKeyOptions_AlwaysPassphrase(c) ==
    [privateKey |-> formatPrivateKey(c.privateKey), passphrase |-> c.passphrase]

PrivateKeyOptions(c) ==
    IF truthy(c.passphrase)
    THEN [privateKey |-> formatPrivateKey(c.privateKey), passphrase |-> c.passphrase]
    ELSE [privateKey |-> formatPrivateKey(c.privateKey)]

(***************************************************************************)
(* resolveHomeDir, the pure part: which branch a path takes and what the  *)
(* '~/' branch returns for a given stdout of 'echo $HOME'                  *)
(***************************************************************************)
\* mutant: absolute paths are looked up as well
needsHomeDir_AnyRoot(p) == startsWith(p, <<"~", "/">>) \/ startsWith(p, <<"/">>)

needsHomeDir(p) == startsWith(p, <<"~", "/">>)

\* mutant: a bare '~' is passed on as it is
invalidPath_TildeAccepted(p) ==
    ~needsHomeDir(p) /\ startsWith(p, <<"~">>) /\ Len(p) > 1

invalidPath(p) == ~needsHomeDir(p) /\ startsWith(p, <<"~">>)

\* mutant: the separator is appended whatever the home directory ends with
expandHomeDir_AlwaysAppend(p, stdout) ==
    LET homeDir == stdout \o <<"/">>
    IN  homeDir \o SubSeq(p, 3, Len(p))

expandHomeDir(p, stdout) ==
    LET homeDir == IF lastChar(stdout) # "/" THEN stdout \o <<"/">> ELSE stdout
    IN  homeDir \o SubSeq(p, 3, Len(p))

\* the file names of an upload; HadidizAi's remoteFilename defaults to ''
FileNames == {<<"f">>, <<>>}

\* mutant: the separator is inserted whatever the directory ends with
joinRemotePath_AlwaysSeparator(dir, name) == dir \o <<"/">> \o name

\* Sshv2 lines 604-606, HadidizAi lines 628-630: the template literal
joinRemotePath(dir, name) ==
    dir \o (IF lastChar(dir) = "/" THEN <<>> ELSE <<"/">>) \o name

(***************************************************************************)
(* Output records.  json: index of the input item whose json is carried   *)
(* over; error: the json.error message; success: the json.success field;   *)
(* code, exitCode: the json.code and json.exitCode fields, which carry the *)
(* exit code of execCommand; binary: a binary payload attached.            *)
(***************************************************************************)
Absent == -1

InputItem(k) ==
    [json |-> k, error |-> NoError, success |-> "absent", code |-> Absent,
     exitCode |-> Absent,
     pairedItem |-> Absent, binary |-> FALSE]

CommandItem(c, k) ==
    [json |-> Absent, error |-> NoError, success |-> "absent", code |-> c,
     exitCode |-> Absent,
     pairedItem |-> k, binary |-> FALSE]

UploadItem(k) ==
    [json |-> Absent, error |-> NoError, success |-> "true", code |-> Absent,
     exitCode |-> Absent,
     pairedItem |-> k, binary |-> FALSE]

DownloadItem(k, withBinary) ==
    [json |-> k, error |-> NoError, success |-> "absent", code |-> Absent,
     exitCode |-> Absent,
     pairedItem |-> k, binary |-> withBinary]

ErrorItem(m, k) ==
    [json |-> Absent, error |-> m, success |-> "absent", code |-> Absent,
     exitCode |-> Absent,
     pairedItem |-> k, binary |-> FALSE]

Running == [kind |-> "running", message |-> NoError, data |-> <<>>]
Returned(data) == [kind |-> "returned", message |-> NoError, data |-> data]
Thrown(m) == [kind |-> "thrown", message |-> m, data |-> <<>>]

(***************************************************************************)
(* The transport (node-ssh): a call on a session that is not connected     *)
(* rejects; on a connected session it resolves or rejects with the         *)
(* transport's message.                                                    *)
(***************************************************************************)
Replies ==
    IF sshState = "Connected"
    THEN {[ok |-> TRUE, message |-> NoError]}
         \cup {[ok |-> FALSE, message |-> m] : m \in TransportMsgs}
    ELSE {[ok |-> FALSE, message |-> NotConnectedMsg]}

ConnectReplies ==
    {[ok |-> TRUE, message |-> NoError]}
    \cup {[ok |-> FALSE, message |-> m] : m \in TransportMsgs}

Issue(call) ==
    /\ inflight' = inflight \cup {[call |-> call, item |-> i]}
    /\ log' = Append(log, [call |-> call, item |-> i, state |-> sshState,
                           tmp |-> binaryFile])

\* an exception thrown while item i is processed
Throw(m) == error' = m /\ raised' = raised \cup {i}

Settle(call) == inflight' = inflight \ {[call |-> call, item |-> i]}

params == <<node, continueOnFail, connectionType, authentication, operation,
            resource, nItems>>
session == <<sshState, connectCalls, connectOk, disposeCalls, credentials,
            connectionOptions>>
transport == <<inflight, log>>
staging == <<binaryFile, tmpCreated, tmpFiles>>
upload == <<remotePath, fileName>>
outputs == <<returnItems, items, result>>

(***************************************************************************)
(* Initial state: the parameters of one invocation                         *)
(***************************************************************************)
Nodes == {"Sshv2", "HadidizAi"}
ConnectionTypes == {"credentials", "parameters"}
\* 'password' and 'privateKey' are the declared options; "other" stands for
\* any other string an expression may deliver
Authentications == {"password", "privateKey", "other"}
Sshv2Operations == {<<"command", "execute">>, <<"file", "download">>, <<"file", "upload">>}
HadidizAiOperations == {"executeCommand", "downloadFile", "uploadFile"}

Init ==
    /\ node \in Nodes
    /\ continueOnFail \in BOOLEAN
    /\ connectionType \in ConnectionTypes
    /\ authentication \in Authentications
    /\ \/ /\ node = "Sshv2"
          /\ \E ro \in Sshv2Operations : resource = ro[1] /\ operation = ro[2]
          /\ nItems \in 0..MaxItems
       \/ /\ node = "HadidizAi"
          /\ resource = "none"
          /\ operation \in HadidizAiOperations
          /\ nItems \in 1..MaxItems
    /\ pc = "start"
    /\ i = 0
    /\ sshState = "Unconnected"
    /\ connectCalls = 0
    /\ connectOk = FALSE
    /\ disposeCalls = 0
    /\ credentials = NoCredentials
    /\ connectionOptions = NoOptions
    /\ inflight = {}
    /\ log = <<>>
    /\ path = <<>>
    /\ remotePath = <<>>
    /\ fileName = <<>>
    /\ binaryFile = 0
    /\ tmpCreated = 0
    /\ tmpFiles = {}
    /\ error = NoError
    /\ raised = {}
    /\ returnItems = <<>>
    /\ items = [k \in 1..nItems |-> InputItem(k - 1)]
    /\ result = Running

(***************************************************************************)
(* Sshv2.execute                                                           *)
(***************************************************************************)
\* lines 452-464: getCredentials('sshPassword' | 'sshPrivateKey')
Sshv2_getCredentials ==
    /\ node = "Sshv2" /\ pc = "start"
    /\ connectionType = "credentials"
    /\ authentication \in {"password", "privateKey"}
    /\ \/ /\ \E c \in IF authentication = "password" THEN PasswordCredentials
                       ELSE PrivateKeyCredentials(PrivateKeys, CredentialPassphrases) :
                /\ credentials' = c
                /\ connectionOptions' = IF authentication = "password"
                                        THEN PasswordOptions(c) ELSE PrivateKeyOptions(c)
          /\ pc' = "connect" /\ UNCHANGED <<error, raised>>
       \/ /\ pc' = "finally" /\ error' = CredentialsMsg /\ raised' = raised
          /\ UNCHANGED <<credentials, connectionOptions>>
    /\ UNCHANGED <<params, i, sshState, connectCalls, connectOk, disposeCalls,
                   transport, path, upload, staging, outputs>>

\* lines 478-506: host, port, username and the secret are node parameters
Sshv2_getParameters ==
    /\ node = "Sshv2" /\ pc = "start"
    /\ connectionType # "credentials"
    /\ authentication \in {"password", "privateKey"}
    /\ \E c \in IF authentication = "password" THEN PasswordCredentials
                 ELSE PrivateKeyCredentials(PrivateKeys, ParameterPassphrases) :
          /\ credentials' = c
          /\ connectionOptions' = IF authentication = "password"
                                  THEN PasswordOptions(c) ELSE PrivateKeyOptions(c)
    /\ pc' = "connect"
    /\ UNCHANGED <<params, i, sshState, connectCalls, connectOk, disposeCalls,
                   transport, path, upload, staging, error, raised, outputs>>

\* lines 454/463 and 484/493: neither branch of the if / else if is taken
Sshv2_noConnect ==
    /\ node = "Sshv2" /\ pc = "start"
    /\ authentication \notin {"password", "privateKey"}
    /\ pc' = "loop"
    /\ UNCHANGED <<params, i, session, transport, path, upload, staging,
                   error, raised, outputs>>

\* lines 457, 476, 487, 508: await ssh.connect(...)
Sshv2_connect ==
    /\ node = "Sshv2" /\ pc = "connect"
    /\ connectCalls' = connectCalls + 1
    /\ Issue("connect")
    /\ pc' = "await_connect"
    /\ UNCHANGED <<params, i, credentials, connectionOptions, sshState,
                   connectOk, disposeCalls, path, upload, staging,
                   error, raised, outputs>>

\* mutant: a rejected connect is tried again
Sshv2_connectDone_Retry ==
    /\ node = "Sshv2" /\ pc = "await_connect"
    /\ Settle("connect")
    /\ \E r \in ConnectReplies :
         IF r.ok
         THEN /\ sshState' = "Connected" /\ connectOk' = TRUE
              /\ pc' = "loop" /\ UNCHANGED <<error, raised>>
         ELSE /\ sshState' = sshState /\ connectOk' = connectOk
              /\ pc' = IF connectCalls < 2 THEN "connect" ELSE "finally"
              /\ error' = r.message /\ raised' = raised
    /\ UNCHANGED <<params, i, credentials, connectionOptions, connectCalls,
                   disposeCalls, log, path, upload, staging, outputs>>

Sshv2_connectDone ==
    /\ node = "Sshv2" /\ pc = "await_connect"
    /\ Settle("connect")
    /\ \E r \in ConnectReplies :
         IF r.ok
         THEN /\ sshState' = "Connected" /\ connectOk' = TRUE
              /\ pc' = "loop" /\ UNCHANGED <<error, raised>>
         ELSE /\ sshState' = sshState /\ connectOk' = connectOk
              /\ pc' = "finally" /\ error' = r.message /\ raised' = raised
    /\ UNCHANGED <<params, i, credentials, connectionOptions, connectCalls,
                   disposeCalls, log, path, upload, staging, outputs>>

\* line 512: for (let i = 0; i < items.length; i++)
Sshv2_loop ==
    /\ node = "Sshv2" /\ pc = "loop"
    /\ pc' = IF i < nItems THEN "getPath" ELSE "finally"
    /\ UNCHANGED <<params, i, session, transport, path, upload, staging,
                   error, raised, outputs>>

\* lines 520, 539, 580: getNodeParameter('cwd' | 'path', i)
Sshv2_getPath ==
    /\ node = "Sshv2" /\ pc = "getPath"
    /\ \E p \in Paths : path' = p
    /\ pc' = "resolveHomeDir"
    /\ UNCHANGED <<params, i, session, transport, upload, staging, error,
                   raised, outputs>>

Sshv2_afterResolve ==
    IF operation = "execute" THEN "execCommand"
    ELSE IF operation = "download" THEN "tmpFile"
    ELSE "assertBinaryData"

\* lines 20-47: resolveHomeDir up to its await
Sshv2_resolveHomeDir ==
    /\ node = "Sshv2" /\ pc = "resolveHomeDir"
    /\ IF needsHomeDir(path)
       THEN /\ Issue("echo $HOME")
            /\ pc' = "await_home" /\ UNCHANGED <<error, raised>>
       ELSE IF invalidPath(path)
       THEN /\ pc' = "catch" /\ Throw(InvalidPathMsg)
            /\ UNCHANGED transport
       ELSE /\ pc' = Sshv2_afterResolve /\ UNCHANGED <<error, raised>>
            /\ UNCHANGED transport
    /\ UNCHANGED <<params, i, session, path, upload, staging, outputs>>

\* lines 27-33: the reply of 'echo $HOME'
Sshv2_resolveHomeDirDone ==
    /\ node = "Sshv2" /\ pc = "await_home"
    /\ Settle("echo $HOME")
    /\ \E r \in Replies :
         IF r.ok
         THEN /\ \E stdout \in HomeDirs : path' = expandHomeDir(path, stdout)
              /\ pc' = Sshv2_afterResolve /\ UNCHANGED <<error, raised>>
         ELSE /\ path' = path /\ pc' = "catch" /\ Throw(r.message)
    /\ UNCHANGED <<params, i, session, log, upload, staging, outputs>>

\* mutant: the command is started and not awaited
Sshv2_execCommand_NoAwait ==
    /\ node = "Sshv2" /\ pc = "execCommand"
    /\ Issue("execCommand")
    /\ pc' = "next"
    /\ UNCHANGED <<params, i, session, path, upload, staging, error, raised,
                   outputs>>

\* line 525: ssh.execCommand(command, { cwd })
Sshv2_execCommand ==
    /\ node = "Sshv2" /\ pc = "execCommand"
    /\ Issue("execCommand")
    /\ pc' = "await_execCommand"
    /\ UNCHANGED <<params, i, session, path, upload, staging, error, raised,
                   outputs>>

\* lines 524-529: the result is pushed whatever its exit code
Sshv2_execCommandDone ==
    /\ node = "Sshv2" /\ pc = "await_execCommand"
    /\ Settle("execCommand")
    /\ \E r \in Replies :
         IF r.ok
         THEN /\ \E c \in ExitCodes : returnItems' = Append(returnItems, CommandItem(c, i))
              /\ pc' = "next" /\ UNCHANGED <<error, raised>>
         ELSE /\ returnItems' = returnItems /\ pc' = "catch" /\ Throw(r.message)
    /\ UNCHANGED <<params, i, session, log, path, upload, staging, items,
                   result>>

\* lines 586-595: assertBinaryData and getBinaryStream
Sshv2_assertBinaryData ==
    /\ node = "Sshv2" /\ pc = "assertBinaryData"
    /\ \E ok \in BOOLEAN :
         IF ok THEN pc' = "tmpFile" /\ UNCHANGED <<error, raised>>
               ELSE pc' = "catch" /\ Throw(BinaryDataMsg)
    /\ UNCHANGED <<params, i, session, transport, path, upload, staging,
                   outputs>>

\* mutant: a fixed staging path instead of a fresh one per call
Sshv2_tmpFile_FixedPath ==
    /\ node = "Sshv2" /\ pc = "tmpFile"
    /\ \E ok \in BOOLEAN :
         IF ok
         THEN /\ tmpCreated' = tmpCreated + 1
              /\ binaryFile' = 1
              /\ tmpFiles' = tmpFiles \cup {1}
              /\ pc' = IF operation = "download" THEN "getFile" ELSE "writeFile"
              /\ UNCHANGED <<error, raised>>
         ELSE /\ UNCHANGED staging
              /\ pc' = "catch" /\ Throw(TmpFileMsg)
    /\ UNCHANGED <<params, i, session, transport, path, upload, outputs>>

\* lines 544, 597: await tmpFile({ prefix: 'n8n-ssh-' })
Sshv2_tmpFile ==
    /\ node = "Sshv2" /\ pc = "tmpFile"
    /\ \E ok \in BOOLEAN :
         IF ok
         THEN /\ tmpCreated' = tmpCreated + 1
              /\ binaryFile' = tmpCreated + 1
              /\ tmpFiles' = tmpFiles \cup {tmpCreated + 1}
              /\ pc' = IF operation = "download" THEN "getFile" ELSE "writeFile"
              /\ UNCHANGED <<error, raised>>
         ELSE /\ UNCHANGED staging
              /\ pc' = "catch" /\ Throw(TmpFileMsg)
    /\ UNCHANGED <<params, i, session, transport, path, upload, outputs>>

\* line 547: ssh.getFile(binaryFile.path, parameterPath)
Sshv2_getFile ==
    /\ node = "Sshv2" /\ pc = "getFile"
    /\ Issue("getFile")
    /\ pc' = "await_getFile"
    /\ UNCHANGED <<params, i, session, path, upload, staging, error, raised,
                   outputs>>

\* mutant: cleanup after the transfer instead of in a finally
Sshv2_getFileDone_NoFinally ==
    /\ node = "Sshv2" /\ pc = "await_getFile"
    /\ Settle("getFile")
    /\ \E r \in Replies :
         IF r.ok
         THEN /\ items' = [items EXCEPT ![i + 1] = DownloadItem(i, FALSE)]
              /\ pc' = "copyBinaryFile" /\ UNCHANGED <<error, raised>>
         ELSE /\ items' = items /\ pc' = "catch" /\ Throw(r.message)
    /\ UNCHANGED <<params, i, session, log, path, upload, staging,
                   returnItems, result>>

\* lines 549-564: items[i] = newItem
Sshv2_getFileDone ==
    /\ node = "Sshv2" /\ pc = "await_getFile"
    /\ Settle("getFile")
    /\ \E r \in Replies :
         IF r.ok
         THEN /\ items' = [items EXCEPT ![i + 1] = DownloadItem(i, FALSE)]
              /\ pc' = "copyBinaryFile" /\ UNCHANGED <<error, raised>>
         ELSE /\ items' = items /\ pc' = "cleanup" /\ Throw(r.message)
    /\ UNCHANGED <<params, i, session, log, path, upload, staging,
                   returnItems, result>>

\* lines 566-571: nodeHelpers.copyBinaryFile(binaryFile.path, ...)
Sshv2_copyBinaryFile ==
    /\ node = "Sshv2" /\ pc = "copyBinaryFile"
    /\ \E ok \in BOOLEAN :
         IF ok
         THEN /\ items' = [items EXCEPT ![i + 1] = DownloadItem(i, TRUE)]
              /\ UNCHANGED <<error, raised>>
         ELSE /\ items' = items /\ Throw(CopyBinaryMsg)
    /\ pc' = "cleanup"
    /\ UNCHANGED <<params, i, session, transport, path, upload, staging,
                   returnItems, result>>

\* line 600: writeFile(binaryFile.path, uploadData)
Sshv2_writeFile ==
    /\ node = "Sshv2" /\ pc = "writeFile"
    /\ \E ok \in BOOLEAN :
         IF ok THEN pc' = "putFile" /\ UNCHANGED <<error, raised>>
               ELSE pc' = "cleanup" /\ Throw(WriteFileMsg)
    /\ UNCHANGED <<params, i, session, transport, path, upload, staging,
                   outputs>>

\* lines 602-607: ssh.putFile(binaryFile.path, ...)
Sshv2_putFile ==
    /\ node = "Sshv2" /\ pc = "putFile"
    /\ \E name \in FileNames \ {<<>>} :
          /\ fileName' = name
          /\ remotePath' = joinRemotePath(path, name)
    /\ Issue("putFile")
    /\ pc' = "await_putFile"
    /\ UNCHANGED <<params, i, session, path, staging, error, raised, outputs>>

\* lines 609-616
Sshv2_putFileDone ==
    /\ node = "Sshv2" /\ pc = "await_putFile"
    /\ Settle("putFile")
    /\ \E r \in Replies :
         IF r.ok
         THEN /\ returnItems' = Append(returnItems, UploadItem(i))
              /\ UNCHANGED <<error, raised>>
         ELSE /\ returnItems' = returnItems /\ Throw(r.message)
    /\ pc' = "cleanup"
    /\ UNCHANGED <<params, i, session, log, path, upload, staging, items,
                   result>>

\* lines 572-574, 617-619: finally { await binaryFile.cleanup() }
Sshv2_cleanup ==
    /\ node = "Sshv2" /\ pc = "cleanup"
    /\ tmpFiles' = tmpFiles \ {binaryFile}
    /\ binaryFile' = 0
    /\ pc' = IF error # NoError THEN "catch" ELSE "next"
    /\ UNCHANGED <<params, i, session, transport, path, upload, tmpCreated,
                   error,
                   raised, outputs>>

\* mutant: break instead of continue
Sshv2_catch_Break ==
    /\ node = "Sshv2" /\ pc = "catch"
    /\ IF continueOnFail
       THEN /\ IF resource = "file" /\ operation = "download"
               THEN /\ items' = [items EXCEPT ![i + 1] = ErrorItem(error, Absent)]
                    /\ returnItems' = returnItems
               ELSE /\ returnItems' = Append(returnItems, ErrorItem(error, i))
                    /\ items' = items
            /\ error' = NoError /\ raised' = raised
            /\ pc' = "finally"
       ELSE /\ UNCHANGED <<items, returnItems, error, raised>>
            /\ pc' = "finally"
    /\ UNCHANGED <<params, i, session, transport, path, upload, staging,
                   result>>

\* lines 622-643: the per-item catch
Sshv2_catch ==
    /\ node = "Sshv2" /\ pc = "catch"
    /\ IF continueOnFail
       THEN /\ IF resource = "file" /\ operation = "download"
               THEN /\ items' = [items EXCEPT ![i + 1] = ErrorItem(error, Absent)]
                    /\ returnItems' = returnItems
               ELSE /\ returnItems' = Append(returnItems, ErrorItem(error, i))
                    /\ items' = items
            /\ error' = NoError /\ raised' = raised
            /\ pc' = "next"
       ELSE /\ UNCHANGED <<items, returnItems, error, raised>>
            /\ pc' = "finally"
    /\ UNCHANGED <<params, i, session, transport, path, upload, staging,
                   result>>

\* line 512: i++; the block-scoped path of the item goes out of scope
Sshv2_next ==
    /\ node = "Sshv2" /\ pc = "next"
    /\ i' = i + 1
    /\ path' = <<>> /\ remotePath' = <<>> /\ fileName' = <<>>
    /\ pc' = "loop"
    /\ UNCHANGED <<params, session, transport, staging, error, raised, outputs>>

\* mutant: ssh.dispose() after the try block instead of in its finally
Sshv2_finally_DisposeOnSuccessOnly ==
    /\ node = "Sshv2" /\ pc = "finally"
    /\ IF error # NoError
       THEN UNCHANGED <<disposeCalls, sshState>>
       ELSE disposeCalls' = disposeCalls + 1 /\ sshState' = "Closed"
    /\ result' = IF error # NoError THEN Thrown(error)
                 ELSE IF resource = "file" /\ operation = "download" THEN Returned(items)
                 ELSE Returned(returnItems)
    /\ pc' = "done"
    /\ UNCHANGED <<params, i, credentials, connectionOptions, connectCalls,
                   connectOk, transport, path, upload, staging,
                   error, raised, returnItems, items>>

\* lines 645-654: finally { ssh.dispose() }, then return or rethrow
Sshv2_finally ==
    /\ node = "Sshv2" /\ pc = "finally"
    /\ disposeCalls' = disposeCalls + 1
    /\ sshState' = "Closed"
    /\ result' = IF error # NoError THEN Thrown(error)
                 ELSE IF resource = "file" /\ operation = "download" THEN Returned(items)
                 ELSE Returned(returnItems)
    /\ pc' = "done"
    /\ UNCHANGED <<params, i, credentials, connectionOptions, connectCalls,
                   connectOk, transport, path, upload, staging,
                   error, raised, returnItems, items>>

Sshv2_execute ==
    \/ Sshv2_getCredentials \/ Sshv2_getParameters \/ Sshv2_noConnect
    \/ Sshv2_connect \/ Sshv2_connectDone
    \/ Sshv2_loop \/ Sshv2_getPath
    \/ Sshv2_resolveHomeDir \/ Sshv2_resolveHomeDirDone
    \/ Sshv2_execCommand \/ Sshv2_execCommandDone
    \/ Sshv2_assertBinaryData \/ Sshv2_tmpFile
    \/ Sshv2_getFile \/ Sshv2_getFileDone \/ Sshv2_copyBinaryFile
    \/ Sshv2_writeFile \/ Sshv2_putFile \/ Sshv2_putFileDone
    \/ Sshv2_cleanup \/ Sshv2_catch \/ Sshv2_next \/ Sshv2_finally


(***************************************************************************)
(* HadidizAi.execute                                                       *)
(***************************************************************************)
HadidizAiCommandItem(c) ==
    [json |-> Absent, error |-> NoError,
     success |-> IF c = 0 THEN "true" ELSE "false", code |-> Absent,
     exitCode |-> c,
     pairedItem |-> Absent, binary |-> FALSE]

HadidizAiDownloadItem ==
    [json |-> Absent, error |-> NoError, success |-> "true", code |-> Absent,
     exitCode |-> Absent,
     pairedItem |-> Absent, binary |-> TRUE]

HadidizAiUploadItem ==
    [json |-> Absent, error |-> NoError, success |-> "true", code |-> Absent,
     exitCode |-> Absent,
     pairedItem |-> Absent, binary |-> FALSE]

HadidizAiErrorItem(m) ==
    [json |-> Absent, error |-> m, success |-> "false", code |-> Absent,
     exitCode |-> Absent,
     pairedItem |-> Absent, binary |-> FALSE]

\* lines 491-512: getCredentials('sshPasswordApi' | 'sshPrivateKeyApi')
HadidizAi_getCredentials ==
    /\ node = "HadidizAi" /\ pc = "start"
    /\ connectionType = "credentials"
    /\ \/ /\ \E c \in IF authentication = "password" THEN PasswordCredentials
                       ELSE PrivateKeyCredentials(PrivateKeys, CredentialPassphrases) :
                /\ credentials' = c
                /\ connectionOptions' = IF authentication = "password"
                                        THEN PasswordOptions(c) ELSE PrivateKeyOptions(c)
          /\ pc' = "connect" /\ UNCHANGED <<error, raised>>
       \/ /\ pc' = "outer_catch" /\ error' = CredentialsMsg /\ raised' = raised
          /\ UNCHANGED <<credentials, connectionOptions>>
    /\ UNCHANGED <<params, i, sshState, connectCalls, connectOk, disposeCalls,
                   transport, path, upload, staging, outputs>>

\* lines 513-542: host, port, username and the secret are node parameters
HadidizAi_getParameters ==
    /\ node = "HadidizAi" /\ pc = "start"
    /\ connectionType # "credentials"
    /\ \E c \in IF authentication = "password" THEN PasswordCredentials
                 ELSE PrivateKeyCredentials(PrivateKeys, ParameterPassphrases) :
          /\ credentials' = c
          /\ connectionOptions' = IF authentication = "password"
                                  THEN PasswordOptions(c) ELSE PrivateKeyOptions(c)
    /\ pc' = "connect"
    /\ UNCHANGED <<params, i, sshState, connectCalls, connectOk, disposeCalls,
                   transport, path, upload, staging, error, raised, outputs>>

\* line 546: await ssh.connect(connectionOptions)
HadidizAi_connect ==
    /\ node = "HadidizAi" /\ pc = "connect"
    /\ connectCalls' = connectCalls + 1
    /\ Issue("connect")
    /\ pc' = "await_connect"
    /\ UNCHANGED <<params, i, credentials, connectionOptions, sshState,
                   connectOk, disposeCalls, path, upload, staging,
                   error, raised, outputs>>

\* mutant: ssh.connect inside the try whose finally disposes
HadidizAi_connectDone_InsideDisposeScope ==
    /\ node = "HadidizAi" /\ pc = "await_connect"
    /\ Settle("connect")
    /\ \E r \in ConnectReplies :
         IF r.ok
         THEN /\ sshState' = "Connected" /\ connectOk' = TRUE
              /\ pc' = "getPath" /\ UNCHANGED <<error, raised>>
         ELSE /\ sshState' = sshState /\ connectOk' = connectOk
              /\ pc' = "inner_finally" /\ error' = ConnectionFailedPrefix \o r.message
              /\ raised' = raised
    /\ UNCHANGED <<params, i, credentials, connectionOptions, connectCalls,
                   disposeCalls, log, path, upload, staging, outputs>>

\* lines 545-553: a rejected connect is rethrown as a NodeOperationError
HadidizAi_connectDone ==
    /\ node = "HadidizAi" /\ pc = "await_connect"
    /\ Settle("connect")
    /\ \E r \in ConnectReplies :
         IF r.ok
         THEN /\ sshState' = "Connected" /\ connectOk' = TRUE
              /\ pc' = "getPath" /\ UNCHANGED <<error, raised>>
         ELSE /\ sshState' = sshState /\ connectOk' = connectOk
              /\ pc' = "outer_catch" /\ error' = ConnectionFailedPrefix \o r.message
              /\ raised' = raised
    /\ UNCHANGED <<params, i, credentials, connectionOptions, connectCalls,
                   disposeCalls, log, path, upload, staging, outputs>>

\* lines 560, 583, 620: workingDirectory | remotePath | remoteDirectory
HadidizAi_getPath ==
    /\ node = "HadidizAi" /\ pc = "getPath"
    /\ \E p \in Paths : path' = p
    /\ pc' = "resolveHomeDir"
    /\ UNCHANGED <<params, i, session, transport, upload, staging, error,
                   raised, outputs>>

HadidizAi_afterResolve ==
    IF operation = "executeCommand" THEN "execCommand" ELSE "tmpFile"

\* lines 22-49: resolveHomeDir up to its await
HadidizAi_resolveHomeDir ==
    /\ node = "HadidizAi" /\ pc = "resolveHomeDir"
    /\ IF needsHomeDir(path)
       THEN /\ Issue("echo $HOME")
            /\ pc' = "await_home" /\ UNCHANGED <<error, raised>>
       ELSE IF invalidPath(path)
       THEN /\ pc' = "inner_finally" /\ Throw(InvalidPathMsg)
            /\ UNCHANGED transport
       ELSE /\ pc' = HadidizAi_afterResolve /\ UNCHANGED <<error, raised>>
            /\ UNCHANGED transport
    /\ UNCHANGED <<params, i, session, path, upload, staging, outputs>>

\* lines 29-35: the reply of 'echo $HOME'
HadidizAi_resolveHomeDirDone ==
    /\ node = "HadidizAi" /\ pc = "await_home"
    /\ Settle("echo $HOME")
    /\ \E r \in Replies :
         IF r.ok
         THEN /\ \E stdout \in HomeDirs : path' = expandHomeDir(path, stdout)
              /\ pc' = HadidizAi_afterResolve /\ UNCHANGED <<error, raised>>
         ELSE /\ path' = path /\ pc' = "inner_finally" /\ Throw(r.message)
    /\ UNCHANGED <<params, i, session, log, upload, staging, outputs>>

\* line 566: ssh.execCommand(command, { cwd })
HadidizAi_execCommand ==
    /\ node = "HadidizAi" /\ pc = "execCommand"
    /\ Issue("execCommand")
    /\ pc' = "await_execCommand"
    /\ UNCHANGED <<params, i, session, path, upload, staging, error, raised,
                   outputs>>

\* lines 568-580
HadidizAi_execCommandDone ==
    /\ node = "HadidizAi" /\ pc = "await_execCommand"
    /\ Settle("execCommand")
    /\ \E r \in Replies :
         IF r.ok
         THEN /\ \E c \in ExitCodes :
                   returnItems' = Append(returnItems, HadidizAiCommandItem(c))
              /\ UNCHANGED <<error, raised>>
         ELSE /\ returnItems' = returnItems /\ Throw(r.message)
    /\ pc' = "inner_finally"
    /\ UNCHANGED <<params, i, session, log, path, upload, staging, items,
                   result>>

\* lines 590, 633: await tmpFile({ prefix: 'n8n-ssh-tool-' })
HadidizAi_tmpFile ==
    /\ node = "HadidizAi" /\ pc = "tmpFile"
    /\ \E ok \in BOOLEAN :
         IF ok
         THEN /\ tmpCreated' = tmpCreated + 1
              /\ binaryFile' = tmpCreated + 1
              /\ tmpFiles' = tmpFiles \cup {tmpCreated + 1}
              /\ pc' = IF operation = "downloadFile" THEN "getFile" ELSE "uploadSource"
              /\ UNCHANGED <<error, raised>>
         ELSE /\ UNCHANGED staging
              /\ pc' = "inner_finally" /\ Throw(TmpFileMsg)
    /\ IF operation = "uploadFile"
       THEN \E name \in FileNames :
               /\ fileName' = name
               /\ remotePath' = joinRemotePath(path, name)
       ELSE UNCHANGED upload
    /\ UNCHANGED <<params, i, session, transport, path, outputs>>

\* line 594: ssh.getFile(binaryFile.path, resolvedRemotePath)
HadidizAi_getFile ==
    /\ node = "HadidizAi" /\ pc = "getFile"
    /\ Issue("getFile")
    /\ pc' = "await_getFile"
    /\ UNCHANGED <<params, i, session, path, upload, staging, error, raised,
                   outputs>>

HadidizAi_getFileDone ==
    /\ node = "HadidizAi" /\ pc = "await_getFile"
    /\ Settle("getFile")
    /\ \E r \in Replies :
         IF r.ok THEN pc' = "copyBinaryFile" /\ UNCHANGED <<error, raised>>
                 ELSE pc' = "cleanup" /\ Throw(r.message)
    /\ UNCHANGED <<params, i, session, log, path, upload, staging, outputs>>

\* lines 597-614: copyBinaryFile, then returnData.push(newItem)
HadidizAi_copyBinaryFile ==
    /\ node = "HadidizAi" /\ pc = "copyBinaryFile"
    /\ \E ok \in BOOLEAN :
         IF ok
         THEN /\ returnItems' = Append(returnItems, HadidizAiDownloadItem)
              /\ UNCHANGED <<error, raised>>
         ELSE /\ returnItems' = returnItems /\ Throw(CopyBinaryMsg)
    /\ pc' = "cleanup"
    /\ UNCHANGED <<params, i, session, transport, path, upload, staging,
                   items, result>>

\* lines 622, 637: uploadSource is 'binaryData' or text content
HadidizAi_uploadSource ==
    /\ node = "HadidizAi" /\ pc = "uploadSource"
    /\ \E uploadSource \in {"binaryData", "text"} :
         pc' = IF uploadSource = "binaryData" THEN "assertBinaryData" ELSE "writeFile"
    /\ UNCHANGED <<params, i, session, transport, path, upload, staging,
                   error, raised, outputs>>

\* lines 639-647: assertBinaryData and getBinaryStream
HadidizAi_assertBinaryData ==
    /\ node = "HadidizAi" /\ pc = "assertBinaryData"
    /\ \E ok \in BOOLEAN :
         IF ok THEN pc' = "writeFile" /\ UNCHANGED <<error, raised>>
               ELSE pc' = "cleanup" /\ Throw(BinaryDataMsg)
    /\ UNCHANGED <<params, i, session, transport, path, upload, staging,
                   outputs>>

\* mutant: writeFile is not awaited, its rejection surfaces after putFile
HadidizAi_writeFile_NoAwait ==
    /\ node = "HadidizAi" /\ pc = "writeFile"
    /\ \E ok \in BOOLEAN :
         IF ok THEN UNCHANGED <<error, raised>> ELSE Throw(WriteFileMsg)
    /\ pc' = "putFile"
    /\ UNCHANGED <<params, i, session, transport, path, upload, staging,
                   outputs>>

\* lines 649, 653: writeFile(binaryFile.path, ...)
HadidizAi_writeFile ==
    /\ node = "HadidizAi" /\ pc = "writeFile"
    /\ \E ok \in BOOLEAN :
         IF ok THEN pc' = "putFile" /\ UNCHANGED <<error, raised>>
               ELSE pc' = "cleanup" /\ Throw(WriteFileMsg)
    /\ UNCHANGED <<params, i, session, transport, path, upload, staging,
                   outputs>>

\* line 657: ssh.putFile(binaryFile.path, remotePath)
HadidizAi_putFile ==
    /\ node = "HadidizAi" /\ pc = "putFile"
    /\ Issue("putFile")
    /\ pc' = "await_putFile"
    /\ UNCHANGED <<params, i, session, path, upload, staging, error, raised,
                   outputs>>

\* lines 659-666
HadidizAi_putFileDone ==
    /\ node = "HadidizAi" /\ pc = "await_putFile"
    /\ Settle("putFile")
    /\ \E r \in Replies :
         IF r.ok
         THEN /\ returnItems' = Append(returnItems, HadidizAiUploadItem)
              /\ UNCHANGED <<error, raised>>
         ELSE /\ returnItems' = returnItems /\ Throw(r.message)
    /\ pc' = "cleanup"
    /\ UNCHANGED <<params, i, session, log, path, upload, staging, items,
                   result>>

\* lines 615-617, 667-669: finally { await binaryFile.cleanup() }
HadidizAi_cleanup ==
    /\ node = "HadidizAi" /\ pc = "cleanup"
    /\ tmpFiles' = tmpFiles \ {binaryFile}
    /\ binaryFile' = 0
    /\ pc' = "inner_finally"
    /\ UNCHANGED <<params, i, session, transport, path, upload, tmpCreated,
                   error,
                   raised, outputs>>

\* mutant: the operation is repeated for every input item
HadidizAi_finally_EachItem ==
    /\ node = "HadidizAi" /\ pc = "inner_finally"
    /\ IF error = NoError /\ i + 1 < nItems
       THEN /\ i' = i + 1 /\ pc' = "getPath"
            /\ UNCHANGED <<disposeCalls, sshState, result>>
       ELSE /\ i' = i
            /\ disposeCalls' = disposeCalls + 1
            /\ sshState' = "Closed"
            /\ IF error # NoError
               THEN pc' = "outer_catch" /\ result' = result
               ELSE pc' = "done" /\ result' = Returned(returnItems)
    /\ UNCHANGED <<params, credentials, connectionOptions, connectCalls,
                   connectOk, transport, path, upload, staging,
                   error, raised, returnItems, items>>

\* lines 671-676: finally { ssh.dispose() }, then return [returnData]
HadidizAi_finally ==
    /\ node = "HadidizAi" /\ pc = "inner_finally"
    /\ disposeCalls' = disposeCalls + 1
    /\ sshState' = "Closed"
    /\ IF error # NoError
       THEN pc' = "outer_catch" /\ result' = result
       ELSE pc' = "done" /\ result' = Returned(returnItems)
    /\ UNCHANGED <<params, i, credentials, connectionOptions, connectCalls,
                   connectOk, transport, path, upload, staging,
                   error, raised, returnItems, items>>

\* mutant: the failure record is returned whatever continueOnFail() says
HadidizAi_catch_AlwaysReturn ==
    /\ node = "HadidizAi" /\ pc = "outer_catch"
    /\ result' = Returned(<<HadidizAiErrorItem(error)>>)
    /\ pc' = "done"
    /\ UNCHANGED <<params, i, session, transport, path, upload, staging,
                   error, raised,
                   returnItems, items>>

\* lines 677-691: the outer catch
HadidizAi_catch ==
    /\ node = "HadidizAi" /\ pc = "outer_catch"
    /\ result' = IF continueOnFail THEN Returned(<<HadidizAiErrorItem(error)>>)
                 ELSE Thrown(error)
    /\ pc' = "done"
    /\ UNCHANGED <<params, i, session, transport, path, upload, staging,
                   error, raised,
                   returnItems, items>>

HadidizAi_execute ==
    \/ HadidizAi_getCredentials \/ HadidizAi_getParameters
    \/ HadidizAi_connect \/ HadidizAi_connectDone
    \/ HadidizAi_getPath
    \/ HadidizAi_resolveHomeDir \/ HadidizAi_resolveHomeDirDone
    \/ HadidizAi_execCommand \/ HadidizAi_execCommandDone
    \/ HadidizAi_tmpFile
    \/ HadidizAi_getFile \/ HadidizAi_getFileDone \/ HadidizAi_copyBinaryFile
    \/ HadidizAi_uploadSource \/ HadidizAi_assertBinaryData
    \/ HadidizAi_writeFile \/ HadidizAi_putFile \/ HadidizAi_putFileDone
    \/ HadidizAi_cleanup \/ HadidizAi_finally \/ HadidizAi_catch

(***************************************************************************)
(* sshConnectionTest: the credential test of the Sshv2 node                *)
(***************************************************************************)
TestResult(status, message) ==
    [kind |-> "returned", status |-> status, message |-> message]

SuccessfulMsg == <<"Connection successful!">>

\* line 397: credential.data, as stored for either credential type
TestCredentials ==
    PasswordCredentials \cup PrivateKeyCredentials(Keys, CredentialPassphrases)

InitTest ==
    /\ node = "sshConnectionTest"
    /\ continueOnFail = FALSE
    /\ connectionType = "credentials"
    /\ authentication = "none"
    /\ resource = "none"
    /\ operation = "none"
    /\ nItems = 0
    /\ pc = "start"
    /\ i = 0
    /\ sshState = "Unconnected"
    /\ connectCalls = 0
    /\ connectOk = FALSE
    /\ disposeCalls = 0
    /\ credentials \in TestCredentials
    /\ connectionOptions = NoOptions
    /\ inflight = {}
    /\ log = <<>>
    /\ path = <<>>
    /\ remotePath = <<>>
    /\ fileName = <<>>
    /\ binaryFile = 0
    /\ tmpCreated = 0
    /\ tmpFiles = {}
    /\ error = NoError
    /\ raised = {}
    /\ returnItems = <<>>
    /\ items = <<>>
    /\ result = Running

\* lines 400-419: build the options and call ssh.connect
Test_connect ==
    /\ node = "sshConnectionTest" /\ pc = "start"
    /\ connectionOptions' = IF credentials.privateKey = <<>>
                            THEN PasswordOptions(credentials)
                            ELSE PrivateKeyOptions(credentials)
    /\ connectCalls' = connectCalls + 1
    /\ Issue("connect")
    /\ pc' = "await_connect"
    /\ UNCHANGED <<params, i, credentials, sshState, connectOk, disposeCalls,
                   path, upload, staging, error, raised, outputs>>

Test_connectDone ==
    /\ node = "sshConnectionTest" /\ pc = "await_connect"
    /\ Settle("connect")
    /\ \E r \in ConnectReplies :
         IF r.ok
         THEN /\ sshState' = "Connected" /\ connectOk' = TRUE
              /\ pc' = "finally" /\ UNCHANGED <<error, raised>>
         ELSE /\ sshState' = sshState /\ connectOk' = connectOk
              /\ pc' = "catch" /\ error' = r.message /\ raised' = raised
    /\ UNCHANGED <<params, i, credentials, connectionOptions, connectCalls,
                   disposeCalls, log, path, upload, staging, outputs>>

\* mutant: the failure is reported without the transport's message
Test_catch_OwnMessage ==
    /\ node = "sshConnectionTest" /\ pc = "catch"
    /\ error' = ConnectionFailedPrefix
    /\ pc' = "finally"
    /\ UNCHANGED <<params, i, session, transport, path, upload, staging, raised,
                   outputs>>

\* lines 421-426: catch (error) { return { status: 'Error', message } }
Test_catch ==
    /\ node = "sshConnectionTest" /\ pc = "catch"
    /\ error' = ConnectionFailedPrefix \o error
    /\ pc' = "finally"
    /\ UNCHANGED <<params, i, session, transport, path, upload, staging, raised,
                   outputs>>

\* lines 427-433: finally { ssh.dispose() }, then the pending return
Test_finally ==
    /\ node = "sshConnectionTest" /\ pc = "finally"
    /\ disposeCalls' = disposeCalls + 1
    /\ sshState' = "Closed"
    /\ result' = IF error # NoError THEN TestResult("Error", error)
                 ELSE TestResult("OK", SuccessfulMsg)
    /\ pc' = "done"
    /\ UNCHANGED <<params, i, credentials, connectionOptions, connectCalls,
                   connectOk, transport, path, upload, staging, error, raised,
                   returnItems, items>>

sshConnectionTest ==
    \/ Test_connect
    \/ Test_connectDone
    \/ Test_catch
    \/ Test_finally

Next == Sshv2_execute \/ HadidizAi_execute

Spec == Init /\ [][Next]_vars

NextTest == sshConnectionTest

SpecTest == InitTest /\ [][NextTest]_vars

(***************************************************************************)
(* formatPrivateKey on its own: every raw key, formatted once              *)
(***************************************************************************)
InitKey ==
    /\ node = "formatPrivateKey"
    /\ continueOnFail = FALSE
    /\ connectionType = "credentials"
    /\ authentication = "privateKey"
    /\ resource = "none"
    /\ operation = "none"
    /\ nItems = 0
    /\ pc = "start"
    /\ i = 0
    /\ sshState = "Unconnected"
    /\ connectCalls = 0
    /\ connectOk = FALSE
    /\ disposeCalls = 0
    /\ credentials \in PrivateKeyCredentials(Keys, {Undefined})
    /\ connectionOptions = NoOptions
    /\ inflight = {}
    /\ log = <<>>
    /\ path = <<>>
    /\ remotePath = <<>>
    /\ fileName = <<>>
    /\ binaryFile = 0
    /\ tmpCreated = 0
    /\ tmpFiles = {}
    /\ error = NoError
    /\ raised = {}
    /\ returnItems = <<>>
    /\ items = <<>>
    /\ result = Running

FormatKey ==
    /\ node = "formatPrivateKey" /\ pc = "start"
    /\ connectionOptions' = [privateKey |-> formatPrivateKey(credentials.privateKey)]
    /\ pc' = "done"
    /\ UNCHANGED <<params, i, credentials, sshState, connectCalls, connectOk,
                   disposeCalls, transport, path, upload, staging, error,
                   raised, outputs>>

NextKey == FormatKey

SpecKey == InitKey /\ [][NextKey]_vars

\* every connect path of the package: both nodes and the credential test
InitAll == Init \/ InitTest

NextAll == Next \/ NextTest

SpecAll == InitAll /\ [][NextAll]_vars


(***************************************************************************)
(* Properties                                                              *)
(***************************************************************************)
DeclaredAuthentications == {"password", "privateKey"}
IsFailure(r) == r.error # NoError
LogIndex == 1..Len(log)

\* C1: in an invocation whose ssh.connect succeeded, ssh.dispose has been
\* invoked exactly once when execute() returns or throws, and never twice
C1_DisposeExactlyOnce ==
    connectOk =>
        /\ disposeCalls <= 1
        /\ result.kind # "running" => disposeCalls = 1

\* a continue-policy batch with a failed and a succeeded item, disposed once
C1_Witness ==
    /\ pc = "done" /\ connectOk /\ disposeCalls = 1
    /\ node = "Sshv2" /\ operation = "upload"
    /\ raised = {0} /\ Len(returnItems) = 2

\* C2 as stated: dispose is invoked if and only if connect succeeded
C2_Original ==
    pc = "done" => (disposeCalls >= 1 <=> connectOk)

\* C2 amended: dispose is invoked whenever connect succeeded; when connect
\* failed or was never reached HadidizAi does not invoke it, Sshv2 invokes it
\* once on the never-connected session
C2_DisposeByNode ==
    pc = "done" =>
        /\ connectOk => disposeCalls = 1
        /\ (~connectOk /\ node = "HadidizAi") => disposeCalls = 0
        /\ (~connectOk /\ node = "Sshv2") => disposeCalls = 1

\* a rejected connect in HadidizAi: nothing disposed
C2_Witness ==
    /\ pc = "done" /\ node = "HadidizAi"
    /\ connectCalls = 1 /\ ~connectOk /\ disposeCalls = 0

StagingScope ==
    {"getFile", "await_getFile", "copyBinaryFile", "writeFile", "putFile",
     "await_putFile", "cleanup"}
    \cup (IF node = "HadidizAi" THEN {"uploadSource", "assertBinaryData"} ELSE {})

\* C3: a staging file exists only between its tmpFile() and its cleanup();
\* none exists when the item's processing has ended, whatever failed, nor
\* when execute() has returned or thrown
C3_StagingRemoved ==
    /\ tmpFiles # {} => pc \in StagingScope
    /\ pc = "done" => tmpFiles = {}

\* the binary helper failed after a download; the staging file is gone
C3_Witness ==
    /\ pc = "catch" /\ error = CopyBinaryMsg
    /\ tmpCreated = 1 /\ tmpFiles = {}

\* C4: whenever ssh.connect fails, execute() throws, carrying the
\* transport's message, and returns no output record
C4_ConnectFailureThrows ==
    (pc = "done" /\ connectCalls >= 1 /\ ~connectOk) =>
        /\ result.kind = "thrown"
        /\ \E m \in TransportMsgs :
             result.message \in {m, ConnectionFailedPrefix \o m}

\* C5: under the continue policy a connected Sshv2 invocation returns one
\* outcome per item, in input order; outcome k is a failure record exactly
\* when item k threw
C5_ContinueYieldsAllOutcomes ==
    (node = "Sshv2" /\ continueOnFail /\ connectOk /\ pc = "done") =>
        /\ result.kind = "returned"
        /\ Len(result.data) = nItems
        /\ \A k \in 1..nItems :
             /\ IsFailure(result.data[k]) <=> (k - 1) \in raised
             /\ operation # "download" => result.data[k].pairedItem = k - 1
             /\ (operation = "download" /\ ~IsFailure(result.data[k])) =>
                    result.data[k] = DownloadItem(k - 1, TRUE)

\* two commands, the first fails: [failure record, success]
C5_Witness ==
    /\ node = "Sshv2" /\ continueOnFail /\ pc = "done"
    /\ operation = "execute" /\ nItems = 2 /\ raised = {0}
    /\ Len(result.data) = 2
    /\ IsFailure(result.data[1]) /\ ~IsFailure(result.data[2])

\* C6: under the halt policy the first item that throws ends the item
\* processing: no transport call of a later item is issued, the failure is
\* what execute() throws, and no output record is returned
C6_HaltAborts ==
    (~continueOnFail /\ raised # {}) =>
        /\ raised = {i}
        /\ pc \in {"cleanup", "catch", "finally", "inner_finally", "outer_catch", "done"}
        /\ \A k \in LogIndex : log[k].item <= i
        /\ pc = "done" => (error # NoError /\ result = Thrown(error))

\* the first of two items failed in its transfer under halt: execute()
\* has thrown and the second item was never tried
C6_Witness ==
    /\ ~continueOnFail /\ pc = "done" /\ node = "Sshv2"
    /\ nItems = 2 /\ raised = {0} /\ i = 0
    /\ \E k \in LogIndex : log[k].call = "putFile"
    /\ result.kind = "thrown"

\* C7: every transport call other than connect is issued on a session in
\* the Connected state
C7_OnlyWhenConnected ==
    \A k \in LogIndex : log[k].call # "connect" => log[k].state = "Connected"

\* C8: at most one staging file exists at a time, it is the one of the item
\* in progress and the newest created; no staging file serves two transfers
C8_StagingExclusive ==
    /\ Cardinality(tmpFiles) <= 1
    /\ tmpFiles \subseteq {binaryFile}
    /\ binaryFile # 0 => binaryFile = tmpCreated
    /\ \A a, b \in LogIndex :
         (a # b /\ log[a].tmp # 0) => log[a].tmp # log[b].tmp
    /\ \A k \in LogIndex :
         log[k].call \in {"getFile", "putFile"} => log[k].tmp # 0
    /\ \A c \in inflight :
         c.call \in {"getFile", "putFile"} => binaryFile \in tmpFiles

\* two transfers of one invocation, each with its own staging file
C8_Witness ==
    /\ pc = "done" /\ tmpCreated = 2 /\ tmpFiles = {}
    /\ \E a, b \in LogIndex : log[a].tmp = 1 /\ log[b].tmp = 2

\* C9: at most one transport call is outstanding, it belongs to the item in
\* progress, and the calls are issued in the order of the items
C9_Sequential ==
    /\ Cardinality(inflight) <= 1
    /\ \A c \in inflight : c.item = i
    /\ \A a, b \in LogIndex : a < b => log[a].item <= log[b].item

\* an invocation that issued two transport calls for each of two items
C9_Witness ==
    /\ pc = "done" /\ inflight = {}
    /\ \E a, b \in LogIndex :
         /\ a + 1 < b /\ b + 1 <= Len(log)
         /\ log[a].item = 0 /\ log[a].call = "echo $HOME"
         /\ log[a + 1].item = 0 /\ log[a + 1].call = "execCommand"
         /\ log[b].item = 1 /\ log[b].call = "echo $HOME"
         /\ log[b + 1].item = 1 /\ log[b + 1].call = "execCommand"

\* C10 as stated: every invocation issues exactly one ssh.connect
C10_Original ==
    pc = "done" => connectCalls = 1

\* C10 amended: an invocation issues at most one ssh.connect and never
\* retries it; it issues none exactly when loading the credentials failed
\* first or, in Sshv2, authentication is neither password nor privateKey
C10_ConnectAtMostOnce ==
    /\ connectCalls <= 1
    /\ pc = "done" =>
         (connectCalls = 0 <=>
            \/ error = CredentialsMsg
            \/ node = "Sshv2" /\ authentication \notin DeclaredAuthentications)

\* a rejected connect, not tried again
C10_Witness ==
    /\ pc = "done" /\ node = "Sshv2" /\ connectCalls = 1 /\ ~connectOk
    /\ result.kind = "thrown"

\* C11: the credential test only attempts a connect; it returns OK exactly
\* when the connect succeeded and otherwise Error with a message that
\* contains the transport's message; it never throws, and it disposes the
\* session exactly once on both outcomes.
C11_ConnectionTest ==
    /\ \A k \in LogIndex : log[k].call = "connect"
    /\ Len(log) <= 1
    /\ result.kind # "thrown"
    /\ disposeCalls <= 1
    /\ pc = "done" =>
         /\ Len(log) = 1
         /\ disposeCalls = 1
         /\ result.kind = "returned"
         /\ result.status = "OK" <=> connectOk
         /\ result.status \in {"OK", "Error"}
         /\ result.status = "Error" =>
              \E m \in TransportMsgs :
                  result.message = ConnectionFailedPrefix \o m

C11_Witness ==
    /\ node = "sshConnectionTest" /\ pc = "done"
    /\ result.status = "Error"
    /\ disposeCalls = 1
    /\ credentials.privateKey # <<>>

\* the program positions that follow a resolveHomeDir that returned
Resolved == {"execCommand", "tmpFile", "assertBinaryData"}

\* the program positions that follow a resolveHomeDir that threw
ResolveFailed == {"catch", "inner_finally"}

\* C12: for every path that does not start with '~', resolveHomeDir returns
\* the path unchanged and issues no remote call on the session.
C12_PlainPathUnchanged ==
    [][(pc = "resolveHomeDir" /\ ~startsWith(path, <<"~">>)) =>
          /\ pc' \in Resolved
          /\ path' = path
          /\ log' = log /\ inflight' = inflight
          /\ error' = error /\ raised' = raised]_vars

C12_Witness ==
    /\ pc = "execCommand"
    /\ path = <<"/", "a">>
    /\ \A k \in LogIndex : log[k].call # "echo $HOME"

\* the number of '/' a string ends with
RECURSIVE trailingSlashes(_)
trailingSlashes(s) ==
    IF Len(s) = 0 \/ s[Len(s)] # "/" THEN 0
    ELSE 1 + trailingSlashes(SubSeq(s, 1, Len(s) - 1))

IsCommandRecord(r) == r.code # Absent \/ r.exitCode # Absent

\* C14: a command that exits non-zero does not raise: its item yields a
\* record whose exitCode is the exit status and whose success flag is false,
\* and success = (exitCode = 0) in every execute-command output record.
C14_SuccessTagged ==
    \A k \in 1..Len(returnItems) :
        LET r == returnItems[k]
        IN  IsCommandRecord(r) =>
              /\ r.error = NoError
              /\ r.exitCode \in ExitCodes
              /\ r.success = IF r.exitCode = 0 THEN "true" ELSE "false"

\* the records an invocation emits: the pushed ones and the (possibly
\* replaced) input items
Emitted ==
    {returnItems[k] : k \in 1..Len(returnItems)}
    \cup {items[k] : k \in 1..Len(items)}
    \cup {result.data[k] : k \in 1..Len(result.data)}

\* C15: in continue-on-failure mode every failure outcome emitted by either
\* node is a record with success = false and error = the failure's message,
\* for every operation kind.
C15_FailureRecord ==
    continueOnFail =>
        \A r \in Emitted : IsFailure(r) => r.success = "false"

\* a connect was issued with a private key
PrivateKeyPath == connectCalls > 0 /\ credentials.privateKey # <<>>

\* C16: on every private-key connect path (stored credentials, inline
\* parameters, the connection test) the connect options carry a passphrase
\* field if and only if the supplied passphrase is non-empty; with an empty
\* or absent passphrase the field is omitted, never set to an empty string.
C16_PassphraseOnlyIfSupplied ==
    PrivateKeyPath =>
        /\ "privateKey" \in DOMAIN connectionOptions
        /\ "passphrase" \in DOMAIN connectionOptions
             <=> credentials.passphrase \notin {Undefined, ""}
        /\ "passphrase" \in DOMAIN connectionOptions
             => connectionOptions.passphrase = credentials.passphrase

C16_Witness ==
    /\ PrivateKeyPath
    /\ node = "sshConnectionTest"
    /\ credentials.passphrase = ""
    /\ DOMAIN connectionOptions = {"privateKey"}

\* a putFile of the current item is under way
PutFileIssued == [call |-> "putFile", item |-> i] \in inflight

\* C17: for every upload, the remote path passed to putFile is the resolved
\* remote directory and the file name joined by exactly one '/' separator,
\* whether or not the directory already ends with '/'.
C17_SingleSeparator ==
    PutFileIssued =>
        /\ lastChar(path) = "/" => remotePath = path \o fileName
        /\ lastChar(path) # "/" => remotePath = path \o <<"/">> \o fileName

C17_Witness ==
    /\ PutFileIssued
    /\ path = <<"/", "h", "/">>
    /\ fileName = <<"f">>
    /\ remotePath = <<"/", "h", "/", "f">>

\* C18: formatPrivateKey never fails; a raw key that starts with the begin
\* marker is returned unchanged, any other raw key comes back as the OpenSSH
\* begin marker, a newline, the raw key unmodified, a newline and the
\* OpenSSH end marker.
C18_FormatPrivateKey ==
    (node = "formatPrivateKey" /\ pc = "done") =>
        LET raw == credentials.privateKey
            out == connectionOptions.privateKey
            h == Len(KeyHeader)
            n == Len(raw)
        IN  /\ error = NoError /\ result.kind # "thrown"
            /\ startsWith(raw, BeginMarker) => out = raw
            /\ ~startsWith(raw, BeginMarker) =>
                 /\ Len(out) = h + 1 + n + 1 + Len(KeyFooter)
                 /\ SubSeq(out, 1, h) = KeyHeader
                 /\ out[h + 1] = "\n"
                 /\ SubSeq(out, h + 2, h + 1 + n) = raw
                 /\ out[h + n + 2] = "\n"
                 /\ SubSeq(out, h + n + 3, Len(out)) = KeyFooter

C18_Witness ==
    /\ node = "formatPrivateKey" /\ pc = "done"
    /\ credentials.privateKey = <<"A">>
    /\ Len(connectionOptions.privateKey) = Len(KeyHeader) + Len(KeyFooter) + 3

IsUpload ==
    \/ node = "Sshv2" /\ resource = "file" /\ operation = "upload"
    \/ node = "HadidizAi" /\ operation = "uploadFile"

\* the failures of an upload that precede its transport write
PreTransferMsgs == {InvalidPathMsg, BinaryDataMsg, TmpFileMsg, WriteFileMsg}

PutFileFor(k) == \E n \in LogIndex : log[n].call = "putFile" /\ log[n].item = k

\* no putFile was issued for an upload item that failed before the write
NoPartialUpload ==
    /\ error \in PreTransferMsgs => (i \in raised /\ ~PutFileFor(i))
    /\ \A r \in Emitted :
          (r.error \in PreTransferMsgs /\ r.pairedItem # Absent)
              => ~PutFileFor(r.pairedItem)

DefaultDirectory == <<"~">>

\* C20: in HadidizAi, an executeCommand that leaves workingDirectory at its
\* default '~', and an uploadFile that leaves remoteDirectory at its default
\* '~', end in the invalid-path failure: the session is connected, no
\* command is executed, no staging file is created, no putFile is issued,
\* and the session is then disposed.
C20_DefaultDirectoryFails ==
    (/\ node = "HadidizAi"
     /\ operation \in {"executeCommand", "uploadFile"}
     /\ connectOk
     /\ path = DefaultDirectory) =>
        /\ pc \in {"resolveHomeDir", "inner_finally", "outer_catch", "done"}
        /\ \A k \in LogIndex : log[k].call = "connect"
        /\ tmpCreated = 0 /\ tmpFiles = {}
        /\ returnItems = <<>>
        /\ pc # "resolveHomeDir" => error = InvalidPathMsg
        /\ pc \in {"resolveHomeDir", "inner_finally"}
             => (disposeCalls = 0 /\ sshState = "Connected")
        /\ pc \in {"outer_catch", "done"}
             => (disposeCalls = 1 /\ sshState = "Closed")
        /\ pc = "done" =>
             result = IF continueOnFail
                      THEN Returned(<<HadidizAiErrorItem(InvalidPathMsg)>>)
                      ELSE Thrown(InvalidPathMsg)

C20_Witness ==
    /\ node = "HadidizAi" /\ operation = "uploadFile"
    /\ path = DefaultDirectory
    /\ pc = "done"
    /\ connectOk /\ disposeCalls = 1
    /\ result = Thrown(InvalidPathMsg)

\* the transport calls that perform an operation
OperationCalls == {"execCommand", "getFile", "putFile"}

\* C21: one HadidizAi invocation performs at most one operation and returns
\* at most one output record however many input items are supplied: every
\* parameter is read for item index 0, and the items at index 1 and above
\* cause no transport call and no output.
C21_SingleOperation ==
    node = "HadidizAi" =>
        /\ i = 0
        /\ raised \subseteq {0}
        /\ \A k \in LogIndex : log[k].item = 0
        /\ Cardinality({k \in LogIndex : log[k].call \in OperationCalls}) <= 1
        /\ Len(returnItems) <= 1
        /\ Len(result.data) <= 1
        /\ items = [k \in 1..nItems |-> InputItem(k - 1)]

C21_Witness ==
    /\ node = "HadidizAi" /\ nItems = 2
    /\ pc = "done"
    /\ Len(result.data) = 1
    /\ result.data[1].error = NoError
    /\ \E k \in LogIndex : log[k].call = "execCommand"

====
